---- MODULE Spec2Model ----
(***************************************************************************)
(* A model of the adjacency-and-filter extraction of pdtb2_functions.py:   *)
(* adjacency_check(datum) and the loop and export of connective_initial.   *)
(*                                                                         *)
(* A datum is a record with the attributes of pdtb2.Datum that the two     *)
(* functions read.  Python's None is the value None below; a raised        *)
(* exception is the name of its class ("ValueError", "TypeError").         *)
(***************************************************************************)
EXTENDS Integers, Sequences, FiniteSets, TLC

VARIABLES
    datum,      \* the Datum handed to adjacency_check
    result,     \* what adjacency_check(datum) gave: "none" before the call
    keepers,    \* the dict of connective_initial, in insertion order
    pc,         \* where connective_initial is: "iter", "done", "error"
    output,     \* the rows written to the CSV file, in order
    last,       \* history: the kind and item id of the datum last iterated
    lastQual,   \* history: item id -> row of its latest qualifying datum, <<>> for none
    nQual,      \* history: item id -> qualifying data seen (capped at 2)
    firstKept   \* history: item ids in the order of their first qualifying datum

vars == <<datum, result, keepers, pc, output, last, lastQual, nQual, firstKept>>

None == "<None>"

\* ------------------------------------------------------------------ bounds

\* Offsets of the span lists given to adjacency_check range over 0..MaxOff.
MaxOff == 7
\* A span list holds at most MaxSpans spans.
MaxSpans == 2

\* The tolerance of adjacency_check.
Tolerance == 3

\* ------------------------------------------------------------ Python helpers

Range(s) == {s[i] : i \in 1..Len(s)}

\* [x for span in spanList for x in span]
RECURSIVE Flatten(_)
Flatten(spanList) ==
    IF spanList = <<>> THEN <<>>
    ELSE Head(spanList) \o Flatten(Tail(spanList))

\* max(xs): raises ValueError on an empty list
PyMax(xs) ==
    IF xs = <<>> THEN "ValueError"
    ELSE CHOOSE m \in Range(xs) : \A x \in Range(xs) : x <= m

\* min(xs): raises ValueError on an empty list
PyMin(xs) ==
    IF xs = <<>> THEN "ValueError"
    ELSE CHOOSE m \in Range(xs) : \A x \in Range(xs) : m <= x

\* Python truthiness of an attribute that is None or a string
Truthy(x) == x # None /\ x # ""

\* ---------------------------------------------------------- adjacency_check

\* The body of adjacency_check after the precedence test.  max and min raise
\* ValueError on an empty list, in the order the code calls them.
adjacency_spans(d) ==
    LET arg1_indices == Flatten(d.Arg1_SpanList)
        arg2_indices == Flatten(d.Arg2_SpanList)
        conn_indices == Flatten(d.Connective_SpanList)
    IN  IF arg1_indices = <<>> THEN "ValueError"
        ELSE IF arg2_indices = <<>> THEN "ValueError"
        ELSE LET arg1_finish == PyMax(arg1_indices)
                 arg2_start == PyMin(arg2_indices)
             IN  IF d.Relation = "Implicit"
                 THEN IF (arg2_start - arg1_finish) <= Tolerance
                      THEN "True" ELSE "False"
                 ELSE IF conn_indices = <<>> THEN "ValueError"
                 ELSE LET conn_start == PyMin(conn_indices)
                          conn_finish == PyMax(conn_indices)
                      IN  IF (conn_start - arg1_finish) <= Tolerance
                             /\ (arg2_start - conn_finish) <= Tolerance
                          THEN "True" ELSE "False"

\* adjacency_check with the tolerance compared strictly
adjacency_check_strict(d) ==
    IF ~d.precedes THEN "False"
    ELSE IF adjacency_spans(d) # "True" THEN adjacency_spans(d)
    ELSE LET arg1_finish == PyMax(Flatten(d.Arg1_SpanList))
             arg2_start == PyMin(Flatten(d.Arg2_SpanList))
         IN  IF d.Relation = "Implicit"
             THEN IF (arg2_start - arg1_finish) < Tolerance THEN "True" ELSE "False"
             ELSE IF /\ PyMin(Flatten(d.Connective_SpanList)) - arg1_finish < Tolerance
                     /\ arg2_start - PyMax(Flatten(d.Connective_SpanList)) < Tolerance
                  THEN "True" ELSE "False"

\* adjacency_check without its precedence test
adjacency_check_no_precedence(d) == adjacency_spans(d)

\* adjacency_check with the gaps compared against the first span of each
\* list only, instead of over all spans
adjacency_check_first_span(d) ==
    IF ~d.precedes THEN "False"
    ELSE IF d.Arg1_SpanList = <<>> \/ d.Arg2_SpanList = <<>> THEN "ValueError"
    ELSE LET arg1_finish == d.Arg1_SpanList[1][2]
             arg2_start == d.Arg2_SpanList[1][1]
         IN  IF d.Relation = "Implicit"
             THEN IF (arg2_start - arg1_finish) <= Tolerance THEN "True" ELSE "False"
             ELSE IF d.Connective_SpanList = <<>> THEN "ValueError"
             ELSE IF (d.Connective_SpanList[1][1] - arg1_finish) <= Tolerance
                     /\ (arg2_start - d.Connective_SpanList[1][2]) <= Tolerance
                  THEN "True" ELSE "False"

\* adjacency_check with an empty span list read as offset 0 instead of raising
adjacency_check_default_zero(d) ==
    IF ~d.precedes THEN "False"
    ELSE LET z(l) == IF l = <<>> THEN <<0>> ELSE Flatten(l)
             r == adjacency_spans([d EXCEPT !.Arg1_SpanList = <<z(@)>>,
                                            !.Arg2_SpanList = <<z(@)>>,
                                            !.Connective_SpanList = <<z(@)>>])
         IN  r

adjacency_check(d) ==
    IF ~d.precedes THEN "False"
    ELSE adjacency_spans(d)

\* ------------------------------------------------------------------ the data

\* A span is a pair of offsets <<start, end>>.  adjacency_check reads only the
\* least and the greatest offset of a span list, so the spans of the model are
\* one offset wide and a longer or discontinuous unit is a list of several.
Spans == {<<s, s + 1>> : s \in 0..(MaxOff - 1)}

\* The span lists of at most n spans, in textual order and disjoint.
RECURSIVE SpanListsUpTo(_)
SpanListsUpTo(n) ==
    IF n = 0 THEN {<<>>}
    ELSE LET shorter == SpanListsUpTo(n - 1)
         IN  shorter \cup
             {Append(l, sp) : l \in {x \in shorter : Len(x) = n - 1}, sp \in Spans}

InOrder(l) == \A i \in 1..(Len(l) - 1) : l[i][2] < l[i + 1][1]

SpanLists == {l \in SpanListsUpTo(MaxSpans) : InOrder(l)}

Relations == {"Explicit", "Implicit", "AltLex"}

\* Datum.arg1_precedes_arg2() is the attribute precedes of a datum.  Where both
\* argument span lists have offsets it is true when the whole of Arg1 lies
\* before Arg2 and false when Arg1 does not start before Arg2; elsewhere it
\* may be either.
arg1_precedes_arg2_ok(a1, a2, p) ==
    (a1 # <<>> /\ a2 # <<>>) =>
        /\ (PyMax(Flatten(a1)) < PyMin(Flatten(a2))) => p
        /\ p => (PyMin(Flatten(a1)) < PyMin(Flatten(a2)))

\* The attributes adjacency_check does not read, at fixed values.
Plain ==
    [Relation |-> "Explicit", precedes |-> TRUE,
     Arg1_SpanList |-> <<>>, Arg2_SpanList |-> <<>>, Connective_SpanList |-> <<>>,
     Sup1_RawText |-> None, Sup2_RawText |-> None,
     ConnHeadSemClass1 |-> None,
     ConnHead |-> "because", Connective_RawText |-> "because", Conn2 |-> None,
     Section |-> 0, FileNumber |-> 1,
     Arg1_RawText |-> "arg1", Arg2_RawText |-> "arg2", conn_str |-> "because"]

\* A datum given to adjacency_check.
AdjDatum(rel, p, a1, a2, c) ==
    [Plain EXCEPT !.Relation = rel, !.precedes = p, !.Arg1_SpanList = a1,
                  !.Arg2_SpanList = a2, !.Connective_SpanList = c]

\* -------------------------------------------------------- connective_initial

\* The pattern connective_initial is called with: re.compile(r'Cause').
sem_re == "Cause"

\* The segments a string of the model is made of, in order.
Segments(string) ==
    CASE string = "Contingency.Cause" -> <<"Contingency", ".", "Cause">>
      [] string = "Expansion" -> <<"Expansion">>
      [] string = "Cause" -> <<"Cause">>
      [] string = "" -> <<>>

\* sem_re.search(string) for a literal pattern: found anywhere in the string,
\* not only at its start; the call raises TypeError when given None.
re_search(pattern, string) ==
    IF string = None THEN "TypeError"
    ELSE LET pat == Segments(pattern)
             str == Segments(string)
         IN  IF \E i \in 1..(Len(str) - Len(pat) + 1) :
                    SubSeq(str, i, i + Len(pat) - 1) = pat
             THEN "match" ELSE "nomatch"

\* "%s/%s" % (datum.Section, datum.FileNumber)
item_id(d) == <<d.Section, "/", d.FileNumber>>

\* The list stored for a kept datum.
keeper_row(d) ==
    <<item_id(d), d.Relation, d.ConnHeadSemClass1, d.Arg1_RawText, d.conn_str,
      d.Arg2_RawText>>

\* A dict is the sequence of its [key, value] items in insertion order.
HasKey(dict, key) == \E i \in 1..Len(dict) : dict[i].key = key

Lookup(dict, key) == (CHOOSE i \in 1..Len(dict) : dict[i].key = key)

\* dict[key] = value that keeps the value already stored under key
dict_setitem_first_wins(dict, key, value) ==
    IF HasKey(dict, key) THEN dict
    ELSE Append(dict, [key |-> key, value |-> value])

\* dict[key] = value that moves an overwritten key to the end
dict_setitem_move_to_end(dict, key, value) ==
    LET keep == {i \in 1..Len(dict) : dict[i].key # key}
        F[i \in 0..Len(dict)] ==
            IF i = 0 THEN <<>>
            ELSE IF i \in keep THEN Append(F[i - 1], dict[i]) ELSE F[i - 1]
    IN  Append(F[Len(dict)], [key |-> key, value |-> value])

\* dict[key] = value: an existing key keeps its place, a new one goes last
dict_setitem(dict, key, value) ==
    IF HasKey(dict, key)
    THEN [dict EXCEPT ![Lookup(dict, key)] = [key |-> key, value |-> value]]
    ELSE Append(dict, [key |-> key, value |-> value])

\* list(dict.values())
dict_values(dict) == [i \in 1..Len(dict) |-> dict[i].value]

\* The test of line 163 that drops the Sup2_RawText condition
no_supplement_sup1_only(d) == ~Truthy(d.Sup1_RawText)

\* not datum.Sup1_RawText and not datum.Sup2_RawText
no_supplement(d) == ~Truthy(d.Sup1_RawText) /\ ~Truthy(d.Sup2_RawText)

\* The test of lines 171-172.
simple_connective(d) ==
    \/ d.Relation = "Explicit" /\ d.ConnHead = d.Connective_RawText
    \/ d.Relation = "Implicit" /\ ~Truthy(d.Conn2)

\* The adjacency test of the loop with a raised ValueError caught and read as
\* not adjacent
adjacency_in_loop_caught(d) ==
    IF adjacency_check(d) = "ValueError" THEN "False" ELSE adjacency_check(d)

\* The call of line 167.
adjacency_in_loop(d) == adjacency_check(d)

\* One iteration of the loop of connective_initial on datum d with the dict k:
\* the dict after it and the exception it raised, None when it raised none.
loop_body(k, d) ==
    LET rel == d.Relation
        same == [keepers |-> k, raised |-> None]
    IN  IF rel \in {"Implicit", "Explicit"} /\ no_supplement(d)
        THEN LET found == re_search(sem_re, d.ConnHeadSemClass1)
             IN  IF found = "TypeError" THEN [keepers |-> k, raised |-> "TypeError"]
                 ELSE IF found = "match"
                 THEN LET adjacent == adjacency_in_loop(d)
                      IN  IF adjacent = "ValueError"
                          THEN [keepers |-> k, raised |-> "ValueError"]
                          ELSE IF adjacent = "True" /\ simple_connective(d)
                          THEN [keepers |-> dict_setitem(k, item_id(d), keeper_row(d)),
                                raised |-> None]
                          ELSE same
                 ELSE same
        ELSE same

\* The header row of the CSV file.
Header == <<"ItemId", "Relation", "ConnHeadSemClass1", "Arg1", "Connective", "Arg2">>

\* The data the corpus reader yields to connective_initial.
SemClasses == {None, "", "Contingency.Cause", "Expansion"}

Sections == {0}

FileNumbers == {1, 2}

ItemIds == {<<sec, "/", f>> : sec \in Sections, f \in FileNumbers}

\* Arg1 ends at 1 or at 7; the connective is at 2..3; Arg2 starts within the
\* tolerance of both (at 4) or beyond it (at 8).
CorpusArg1 == {<<>>, <<<<0, 1>>>>, <<<<6, 7>>>>}
CorpusConn == {<<>>, <<<<2, 3>>>>}
CorpusArg2 == {<<<<4, 5>>>>, <<<<8, 9>>>>}

CorpusData ==
    {[Relation |-> rel, precedes |-> p,
      Arg1_SpanList |-> a1, Arg2_SpanList |-> a2, Connective_SpanList |-> c,
      Sup1_RawText |-> s1, Sup2_RawText |-> s2,
      ConnHeadSemClass1 |-> sc,
      ConnHead |-> "because", Connective_RawText |-> raw, Conn2 |-> c2,
      Section |-> sec, FileNumber |-> f,
      Arg1_RawText |-> t1, Arg2_RawText |-> "arg2", conn_str |-> "because"] :
        rel \in Relations, p \in BOOLEAN,
        a1 \in CorpusArg1, a2 \in CorpusArg2, c \in CorpusConn,
        s1 \in {None, "", "sup1"}, s2 \in {None, "", "sup2"},
        sc \in SemClasses, raw \in {"because", "partly because"},
        c2 \in {None, "and"}, sec \in Sections, f \in FileNumbers,
        t1 \in {"arg1", "Arg1"}}

Corpus ==
    {d \in CorpusData :
        arg1_precedes_arg2_ok(d.Arg1_SpanList, d.Arg2_SpanList, d.precedes)}

\* ----------------------------------------------------------------- history

\* The five conditions of the filter, each told on its own: the relation, no
\* supplementary text, the semantic class, adjacency, the simple connective.
FiveConditions(d) ==
    /\ d.Relation \in {"Explicit", "Implicit"}
    /\ d.Sup1_RawText \in {None, ""} /\ d.Sup2_RawText \in {None, ""}
    /\ re_search(sem_re, d.ConnHeadSemClass1) = "match"
    /\ adjacency_check(d) = "True"
    /\ \/ d.Relation = "Explicit" /\ d.ConnHead = d.Connective_RawText
       \/ d.Relation = "Implicit" /\ d.Conn2 = None

\* What a datum is to the filter: "qualifies" (all five hold), "sup_only" (only
\* the supplementary text stands in the way), "sem_absent" (relation and
\* supplementary text pass, the class is None), "adj_error" (the first three
\* pass and adjacency_check raises), "other".
Kind(d) ==
    IF FiveConditions(d) THEN "qualifies"
    ELSE IF FiveConditions([d EXCEPT !.Sup1_RawText = None, !.Sup2_RawText = None])
    THEN "sup_only"
    ELSE IF /\ d.Relation \in {"Explicit", "Implicit"}
            /\ d.Sup1_RawText \in {None, ""} /\ d.Sup2_RawText \in {None, ""}
    THEN IF d.ConnHeadSemClass1 = None THEN "sem_absent"
         ELSE IF /\ re_search(sem_re, d.ConnHeadSemClass1) = "match"
                 /\ adjacency_check(d) = "ValueError"
         THEN "adj_error" ELSE "other"
    ELSE "other"

\* The fields of a datum that a kept row holds.
QualRow(d) ==
    <<<<d.Section, "/", d.FileNumber>>, d.Relation, d.ConnHeadSemClass1,
      d.Arg1_RawText, d.conn_str, d.Arg2_RawText>>

NoHistory == [id |-> <<>>, kind |-> "none"]

\* An iteration acts on the state through the datum's item id, its kind, its
\* row when it qualifies, and what the loop body does with it; the reader
\* yields one datum of the corpus for each such class.
Class(d) ==
    [id |-> item_id(d), kind |-> Kind(d),
     row |-> IF Kind(d) = "qualifies" THEN QualRow(d) ELSE <<>>,
     body |-> loop_body(<<>>, d)]

CorpusClasses == {Class(d) : d \in Corpus}

Yielded == {CHOOSE d \in Corpus : Class(d) = c : c \in CorpusClasses}

\* ------------------------------------------------ connective_initial, stepwise

Init ==
    /\ datum = Plain
    /\ result = "none"
    /\ keepers = <<>>
    /\ pc = "iter"
    /\ output = <<>>
    /\ last = NoHistory
    /\ lastQual = [id \in ItemIds |-> <<>>]
    /\ nQual = [id \in ItemIds |-> 0]
    /\ firstKept = <<>>

\* The reader yields a datum and the loop body runs on it.
ProcessDatum ==
    /\ pc = "iter"
    /\ \E d \in Yielded :
         LET r == loop_body(keepers, d)
             id == item_id(d)
             q == Kind(d) = "qualifies"
         IN  /\ keepers' = r.keepers
             /\ pc' = IF r.raised = None THEN "iter" ELSE "error"
             /\ last' = [id |-> id, kind |-> Kind(d)]
             /\ lastQual' = IF q THEN [lastQual EXCEPT ![id] = QualRow(d)] ELSE lastQual
             /\ nQual' = IF q /\ nQual[id] < 2 THEN [nQual EXCEPT ![id] = @ + 1] ELSE nQual
             /\ firstKept' = IF q /\ id \notin Range(firstKept)
                             THEN Append(firstKept, id) ELSE firstKept
    /\ UNCHANGED <<datum, result, output>>

\* The reader is exhausted: the header row and the kept rows are written.
Export ==
    /\ pc = "iter"
    /\ output' = <<Header>> \o dict_values(keepers)
    /\ pc' = "done"
    /\ UNCHANGED <<datum, result, keepers, last, lastQual, nQual, firstKept>>

Next == ProcessDatum \/ Export

Spec == Init /\ [][Next]_vars

\* ---------------------------------------------- adjacency_check on its own

InitAdj ==
    /\ \E rel \in Relations, p \in BOOLEAN, a1 \in SpanLists, a2 \in SpanLists :
         /\ arg1_precedes_arg2_ok(a1, a2, p)
         /\ \E c \in SpanLists : datum = AdjDatum(rel, p, a1, a2, c)
    /\ result = "none"
    /\ keepers = <<>>
    /\ pc = "adjacency"
    /\ output = <<>>
    /\ last = NoHistory
    /\ lastQual = [id \in ItemIds |-> <<>>]
    /\ nQual = [id \in ItemIds |-> 0]
    /\ firstKept = <<>>

CallAdjacencyCheck ==
    /\ pc = "adjacency"
    /\ result = "none"
    /\ result' = adjacency_check(datum)
    /\ UNCHANGED <<datum, keepers, pc, output, last, lastQual, nQual, firstKept>>

NextAdj == CallAdjacencyCheck

SpecAdj == InitAdj /\ [][NextAdj]_vars

\* ------------------------------------------------- claims on adjacency_check

Called == pc = "adjacency" /\ result # "none"

HasArgs == datum.Arg1_SpanList # <<>> /\ datum.Arg2_SpanList # <<>>

Arg1Finish == PyMax(Flatten(datum.Arg1_SpanList))
Arg2Start == PyMin(Flatten(datum.Arg2_SpanList))
ConnStart == PyMin(Flatten(datum.Connective_SpanList))
ConnFinish == PyMax(Flatten(datum.Connective_SpanList))

\* C1 as stated: for an Implicit datum adjacency_check returns True exactly
\* when arg2Start - arg1Finish <= 3.
C1_AsStated ==
    (Called /\ datum.Relation = "Implicit" /\ HasArgs) =>
        (result = "True" <=> Arg2Start - Arg1Finish <= 3)

\* C1 amended: for an Implicit datum whose argument span lists have offsets,
\* adjacency_check returns a boolean, and returns True exactly when
\* arg1_precedes_arg2() is true and arg2Start - arg1Finish <= 3, whatever the
\* connective span list holds.
C1_ImplicitGap ==
    (Called /\ datum.Relation = "Implicit" /\ HasArgs) =>
        /\ result \in {"True", "False"}
        /\ result = "True" <=> (datum.precedes /\ Arg2Start - Arg1Finish <= 3)

C1_Witness ==
    /\ Called /\ datum.Relation = "Implicit" /\ datum.precedes /\ HasArgs
    /\ datum.Connective_SpanList = <<>>
    /\ Len(datum.Arg1_SpanList) = 2
    /\ Arg2Start - Arg1Finish = 3
    /\ result = "True"

\* C2 as stated: for a datum that is not Implicit and has a connective span,
\* adjacency_check returns True exactly when both gaps are at most 3.
C2_AsStated ==
    (Called /\ datum.Relation # "Implicit" /\ HasArgs
        /\ datum.Connective_SpanList # <<>>) =>
        (result = "True" <=>
            (ConnStart - Arg1Finish <= 3 /\ Arg2Start - ConnFinish <= 3))

\* C2 amended: for a datum that is not Implicit and whose three span lists have
\* offsets, adjacency_check returns True exactly when arg1_precedes_arg2() is
\* true and both gaps, connStart - arg1Finish and arg2Start - connFinish, are
\* at most 3.
C2_ExplicitGaps ==
    (Called /\ datum.Relation # "Implicit" /\ HasArgs
        /\ datum.Connective_SpanList # <<>>) =>
        /\ result \in {"True", "False"}
        /\ result = "True" <=>
            /\ datum.precedes
            /\ ConnStart - Arg1Finish <= 3
            /\ Arg2Start - ConnFinish <= 3

C2_Witness ==
    /\ Called /\ datum.Relation = "AltLex" /\ datum.precedes /\ HasArgs
    /\ Len(datum.Connective_SpanList) = 2
    /\ ConnStart >= Arg1Finish /\ Arg2Start >= ConnFinish
    /\ result = "True"

\* C3: when arg1_precedes_arg2() is false adjacency_check returns False,
\* whatever the relation and the span lists are, empty lists included.
C3_NotPrecedesIsFalse ==
    (Called /\ ~datum.precedes) => result = "False"

C3_Witness ==
    /\ Called /\ ~datum.precedes
    /\ datum.Arg1_SpanList = <<>>
    /\ datum.Relation = "Explicit" /\ datum.Connective_SpanList = <<>>
    /\ result = "False"

RequiredListEmpty ==
    \/ datum.Arg1_SpanList = <<>>
    \/ datum.Arg2_SpanList = <<>>
    \/ datum.Relation # "Implicit" /\ datum.Connective_SpanList = <<>>

\* C6 as stated: adjacency_check raises whenever a required span list is empty.
C6_AsStated ==
    (Called /\ RequiredListEmpty) => result = "ValueError"

\* C6 amended: when arg1_precedes_arg2() is true, adjacency_check raises
\* instead of returning a boolean whenever a required span list is empty: the
\* Arg1 or Arg2 list for any relation, the connective list for a relation that
\* is not Implicit.
C6_EmptyListRaises ==
    (Called /\ datum.precedes /\ RequiredListEmpty) => result = "ValueError"

C6_Witness ==
    /\ Called /\ datum.precedes /\ HasArgs
    /\ datum.Relation = "Explicit" /\ datum.Connective_SpanList = <<>>
    /\ Arg2Start - Arg1Finish <= 3
    /\ result = "ValueError"

\* C8: when adjacency_check returns True the datum has the form Arg1,
\* connective, Arg2 from left to right: the connective starts at or after the
\* end of Arg1 and ends at or before the start of Arg2, and for an Implicit
\* datum Arg2 starts at or after the end of Arg1.
C8_LeftToRight ==
    (Called /\ result = "True") =>
        IF datum.Relation = "Implicit"
        THEN Arg2Start >= Arg1Finish
        ELSE ConnStart >= Arg1Finish /\ ConnFinish <= Arg2Start

\* ----------------------------------------------- claims on connective_initial

Entries(dict, key) == {i \in 1..Len(dict) : dict[i].key = key}

\* C4: once two or more qualifying data of an item id have been iterated, the
\* dict holds exactly one entry for the id and it is the row of the latest of
\* them, also after later data of the id that do not qualify.
C4_LastMatchWins ==
    \A id \in ItemIds :
        (pc # "adjacency" /\ nQual[id] >= 2) =>
            /\ Cardinality(Entries(keepers, id)) = 1
            /\ keepers[Lookup(keepers, id)].value = lastQual[id]

C4_Witness ==
    /\ pc = "iter"
    /\ last.kind \in {"sup_only", "other"}
    /\ last.id \in ItemIds
    /\ nQual[last.id] >= 2
    /\ HasKey(keepers, last.id)

\* C5: the dict starts empty, an entry is written only by an iteration on a
\* datum that meets all five conditions, and in every state each entry's item
\* id has had such a datum.
C5_OnlyQualifyingKept ==
    /\ [](pc # "adjacency" =>
            \A i \in 1..Len(keepers) : nQual[keepers[i].key] >= 1)
    /\ [][\A i \in 1..Len(keepers') :
            (i > Len(keepers) \/ keepers'[i] # keepers[i]) =>
                /\ last'.kind = "qualifies"
                /\ keepers'[i].key = last'.id
                /\ keepers'[i].value = lastQual'[last'.id]]_vars

C5_Witness ==
    /\ pc = "iter"
    /\ last.kind = "sup_only"
    /\ ~HasKey(keepers, last.id)

\* C7: a datum that is Explicit or Implicit, has no supplementary text and has
\* no ConnHeadSemClass1 is skipped without an error.
C7_AbsentClassSkipped ==
    last.kind = "sem_absent" => pc # "error"

\* C9: an iteration in which adjacency_check raises ends the pass: no further
\* datum is iterated, and nothing is written to the CSV file, whatever the
\* dict holds by then.
C9_FailFast ==
    /\ [](last.kind = "adj_error" => (pc = "error" /\ output = <<>>))
    /\ [][pc # "error"]_vars

C9_Witness ==
    /\ last.kind = "adj_error"
    /\ pc = "error"
    /\ Len(keepers) = 2

\* C10: the item ids of the dict only grow, and on completion the CSV file
\* holds, after the header, one row per item id that had a qualifying datum,
\* in the order in which the ids were first kept, each the row of the id's
\* latest qualifying datum.
C10_ExportOrder ==
    /\ [](pc = "done" =>
            output = <<Header>> \o [i \in 1..Len(firstKept) |-> lastQual[firstKept[i]]])
    /\ [][\A i \in 1..Len(keepers) : HasKey(keepers', keepers[i].key)]_vars

C10_Witness ==
    /\ pc = "done"
    /\ Len(firstKept) = 2
    /\ last.kind = "qualifies"
    /\ last.id = firstKept[1]
    /\ Len(output) = 3

====
